---- MODULE Spec2Model ----
(***************************************************************************)
(* The SVG preview pipeline of GDGVITM/svg-preview: SvgProcessor locates   *)
(* an <svg>...</svg> fragment around a cursor offset (findSvgTag), checks  *)
(* its tag balance (validateSvgStructure) and rewrites it into a           *)
(* self-contained form (cleanSvgContent).  Texts are TLA+ strings; an      *)
(* index is 0-based as in the TypeScript source.                           *)
(***************************************************************************)
EXTENDS Integers, Sequences, FiniteSets, TLC

VARIABLES text, offset, match, verdict, steps, cleaned, recleaned, pc

\* the hover manager: its invocations, its hideTimer field, and the timers
\* and the display of the host
VARIABLES calls, hideTimer, timers, shown

\* the reference-pruning loop of processReferences: the text it rewrites, the
\* reference kind, the scan position of the regex and the IdentifierSet
VARIABLES prune

hoverVars == <<calls, hideTimer, timers, shown>>

processorVars ==
    <<text, offset, match, verdict, steps, cleaned, recleaned, pc, prune>>

vars ==
    <<text, offset, match, verdict, steps, cleaned, recleaned, pc,
      calls, hideTimer, timers, shown, prune>>

(***************************************************************************)
(* Bounds of the model.                                                    *)
(***************************************************************************)
\* the number of tokens of a generated document
MaxTokens == 4
\* the number of child elements of a generated fragment
MaxChildren == 2

MaxValidateTokens == 3

MaxNormalizeChildren == 2
\* the number of tokens of a generated word
MaxReferenceTokens == 3
\* the number of hover invocations
MaxCalls == 2
\* the number of attributes of a text of the pruning loop
MaxPruneTokens == 2
\* the number of tokens of a document the two versions are compared on
MaxRefactorTokens == 3

(***************************************************************************)
(* JavaScript string primitives.                                           *)
(***************************************************************************)
Min(a, b) == IF a <= b THEN a ELSE b

SetMin(S) == CHOOSE x \in S : \A y \in S : x <= y

SetMax(S) == CHOOSE x \in S : \A y \in S : x >= y

\* text[i]
CharAt(s, i) == SubSeq(s, i + 1, i + 1)

\* s.substring(a, b) for 0 <= a <= b: both ends are clamped to the length
Substring(s, a, b) == SubSeq(s, Min(a, Len(s)) + 1, Min(b, Len(s)))

\* s.substring(a)
SubstringFrom(s, a) == SubSeq(s, Min(a, Len(s)) + 1, Len(s))

\* s.startsWith(pat, i)
StartsWithAt(s, pat, i) ==
    /\ i + Len(pat) <= Len(s)
    /\ SubSeq(s, i + 1, i + Len(pat)) = pat

\* s.endsWith(pat)
EndsWith(s, pat) ==
    /\ Len(pat) <= Len(s)
    /\ SubSeq(s, Len(s) - Len(pat) + 1, Len(s)) = pat

\* s.indexOf(pat, from), -1 when there is none
IndexOf(s, pat, from) ==
    LET hits == {i \in from..(Len(s) - Len(pat)) : StartsWithAt(s, pat, i)}
    IN  IF hits = {} THEN -1 ELSE SetMin(hits)

\* s.includes(pat)
Includes(s, pat) == \E i \in 0..(Len(s) - Len(pat)) : StartsWithAt(s, pat, i)

\* s.lastIndexOf(pat, from): the last occurrence that STARTS at or before from
LastIndexOfFromEnd(s, pat, from) ==
    LET hits == {i \in 0..(Len(s) - Len(pat)) : StartsWithAt(s, pat, i)}
    IN  IF hits = {} THEN -1 ELSE SetMax(hits)

LastIndexOf(s, pat, from) ==
    LET hits == {i \in 0..Min(from, Len(s) - Len(pat)) : StartsWithAt(s, pat, i)}
    IN  IF hits = {} THEN -1 ELSE SetMax(hits)

\* s.replace(pat, rep) with a string pattern: the first occurrence only
ReplaceFirst(s, pat, rep) ==
    LET i == IndexOf(s, pat, 0)
    IN  IF i = -1 THEN s
        ELSE Substring(s, 0, i) \o rep \o SubstringFrom(s, i + Len(pat))

IsQuote(c) == c = "\"" \/ c = "'"

IsSpace(c) == c = " " \/ c = "\n" \/ c = "\t" \/ c = "\r"

\* s.trim()
Trim(s) ==
    LET keep == {i \in 0..(Len(s) - 1) : ~IsSpace(CharAt(s, i))}
    IN  IF keep = {} THEN "" ELSE Substring(s, SetMin(keep), SetMax(keep) + 1)

(***************************************************************************)
(* TagLocator: SvgProcessor.findSvgTag.                                    *)
(***************************************************************************)
Null == [found |-> FALSE]

\* the state of a scanning for loop: its index i, its locals, and the value
\* it returned early with (done)
ScanStart(startIndex, depth) ==
    [i |-> startIndex, depth |-> depth, inQuote |-> FALSE, quoteChar |-> "",
     done |-> FALSE, result |-> -1]

\* one iteration of the for loop of findOpenTagEnd
OpenTagEndStep(s, st) ==
    LET i == st.i
        char == CharAt(s, i)
    IN  IF ~st.inQuote
        THEN IF IsQuote(char)
             THEN [st EXCEPT !.i = i + 1, !.inQuote = TRUE, !.quoteChar = char]
             ELSE IF char = ">" THEN [st EXCEPT !.done = TRUE, !.result = i]
             ELSE [st EXCEPT !.i = i + 1]
        ELSE IF char = st.quoteChar
             THEN [st EXCEPT !.i = i + 1, !.inQuote = FALSE]
             ELSE [st EXCEPT !.i = i + 1]

\* one iteration of the for loop of findCloseTag
CloseTagStep(s, st) ==
    LET i == st.i
        char == CharAt(s, i)
    IN  IF ~st.inQuote
        THEN IF IsQuote(char)
             THEN [st EXCEPT !.i = i + 1, !.inQuote = TRUE, !.quoteChar = char]
             ELSE IF Substring(s, i, i + 4) = "<svg"
                  THEN [st EXCEPT !.i = i + 3 + 1, !.depth = st.depth + 1]
             ELSE IF Substring(s, i, i + 6) = "</svg>"
                  THEN IF st.depth - 1 = 0
                       THEN [st EXCEPT !.depth = 0, !.done = TRUE, !.result = i]
                       ELSE [st EXCEPT !.i = i + 5 + 1, !.depth = st.depth - 1]
             ELSE [st EXCEPT !.i = i + 1]
        ELSE IF char = st.quoteChar
             THEN [st EXCEPT !.i = i + 1, !.inQuote = FALSE]
             ELSE [st EXCEPT !.i = i + 1]

\* one iteration of the for loop of validateSvgStructure
BalanceStep(s, st) ==
    LET i == st.i
        char == CharAt(s, i)
    IN  IF ~st.inQuote
        THEN IF IsQuote(char)
             THEN [st EXCEPT !.i = i + 1, !.inQuote = TRUE, !.quoteChar = char]
             ELSE IF char = "<"
                  THEN IF Substring(s, i, i + 2) = "</"
                       THEN IF st.depth - 1 < 0
                            THEN [st EXCEPT !.depth = st.depth - 1, !.done = TRUE]
                            ELSE [st EXCEPT !.i = i + 1, !.depth = st.depth - 1]
                       ELSE [st EXCEPT !.i = i + 1, !.depth = st.depth + 1]
             ELSE [st EXCEPT !.i = i + 1]
        ELSE IF char = st.quoteChar
             THEN [st EXCEPT !.i = i + 1, !.inQuote = FALSE]
             ELSE [st EXCEPT !.i = i + 1]

\* one iteration of the first for loop of the monolith's checkForSvgTag
CheckForSvgTagOpenStep(s, st) ==
    LET i == st.i
        char == CharAt(s, i)
    IN  IF ~st.inQuote
        THEN IF char = "\"" \/ char = "'"
             THEN [st EXCEPT !.i = i + 1, !.inQuote = TRUE, !.quoteChar = char]
             ELSE IF char = ">"
                  THEN [st EXCEPT !.done = TRUE, !.result = i]
                  ELSE [st EXCEPT !.i = i + 1]
        ELSE IF char = st.quoteChar
             THEN [st EXCEPT !.i = i + 1, !.inQuote = FALSE]
             ELSE [st EXCEPT !.i = i + 1]

\* one iteration of the second for loop of the monolith's checkForSvgTag
CheckForSvgTagCloseStep(s, st) ==
    LET i == st.i
        char == CharAt(s, i)
    IN  IF ~st.inQuote
        THEN IF char = "\"" \/ char = "'"
             THEN [st EXCEPT !.i = i + 1, !.inQuote = TRUE, !.quoteChar = char]
             ELSE IF Substring(s, i, i + 4) = "<svg"
                  THEN [st EXCEPT !.depth = st.depth + 1, !.i = (i + 3) + 1]
             ELSE IF Substring(s, i, i + 6) = "</svg>"
                  THEN IF st.depth - 1 = 0
                       THEN [st EXCEPT !.depth = st.depth - 1, !.done = TRUE,
                                       !.result = i]
                       ELSE [st EXCEPT !.depth = st.depth - 1, !.i = (i + 5) + 1]
             ELSE [st EXCEPT !.i = i + 1]
        ELSE IF char = st.quoteChar
             THEN [st EXCEPT !.i = i + 1, !.inQuote = FALSE]
             ELSE [st EXCEPT !.i = i + 1]

\* one iteration of the for loop of the monolith's validateSvgStructure; done
\* is its return false
MonolithBalanceStep(s, st) ==
    LET i == st.i
        char == CharAt(s, i)
    IN  IF ~st.inQuote
        THEN IF char = "\"" \/ char = "'"
             THEN [st EXCEPT !.i = i + 1, !.inQuote = TRUE, !.quoteChar = char]
             ELSE IF char = "<"
                  THEN IF Substring(s, i, i + 2) = "</"
                       THEN IF st.depth - 1 < 0
                            THEN [st EXCEPT !.depth = st.depth - 1, !.done = TRUE]
                            ELSE [st EXCEPT !.depth = st.depth - 1, !.i = i + 1]
                       ELSE [st EXCEPT !.depth = st.depth + 1, !.i = i + 1]
             ELSE [st EXCEPT !.i = i + 1]
        ELSE IF char = st.quoteChar
             THEN [st EXCEPT !.i = i + 1, !.inQuote = FALSE]
             ELSE [st EXCEPT !.i = i + 1]

ScanStep(loop, s, st) ==
    CASE loop = "findOpenTagEnd" -> OpenTagEndStep(s, st)
      [] loop = "findCloseTag"   -> CloseTagStep(s, st)
      [] loop = "validate"       -> BalanceStep(s, st)
      [] loop = "checkForSvgTag.open"  -> CheckForSvgTagOpenStep(s, st)
      [] loop = "checkForSvgTag.close" -> CheckForSvgTagCloseStep(s, st)
      [] loop = "monolith.validate"    -> MonolithBalanceStep(s, st)

\* for (let i = ...; i < s.length; i++) { body }: at most n iterations of the
\* body, stopping at an early return or at the end of the text
RECURSIVE ForLoop(_, _, _, _)
ForLoop(loop, s, st, n) ==
    IF n = 0 \/ st.done \/ st.i >= Len(s) THEN st
    ELSE IF n = 1 THEN ScanStep(loop, s, st)
    ELSE LET half == ForLoop(loop, s, st, n \div 2)
         IN  IF half.done \/ half.i >= Len(s) THEN half
             ELSE ForLoop(loop, s, half, n - (n \div 2))

\* a faulty opening-tag scan: the first > closes the tag, quoted or not
FindOpenTagEndNoQuotes(s, startIndex) == IndexOf(s, ">", startIndex)

FindOpenTagEnd(s, startIndex) ==
    ForLoop("findOpenTagEnd", s, ScanStart(startIndex, 0), Len(s)).result

\* a faulty closing-tag search: the first </svg> closes the element
FindCloseTagNoDepth(s, startIndex) == IndexOf(s, "</svg>", startIndex)

FindCloseTag(s, startIndex) ==
    ForLoop("findCloseTag", s, ScanStart(startIndex, 1), Len(s)).result

\* a faulty backward search: the offset is ignored
FindOpenTagAnywhere(s, off) == LastIndexOfFromEnd(s, "<svg", off)

FindOpenTag(s, off) == LastIndexOf(s, "<svg", off)

\* a faulty span: the fragment stops where the closing token starts
FindSvgTagOpenEnded(s, off) ==
    LET openTagIndex == FindOpenTag(s, off)
    IN  IF openTagIndex = -1 THEN Null
        ELSE LET openTagEndIndex == FindOpenTagEnd(s, openTagIndex + 4)
             IN  IF openTagEndIndex = -1 THEN Null
                 ELSE LET closeTagIndex == FindCloseTag(s, openTagEndIndex + 1)
                      IN  IF closeTagIndex = -1 THEN Null
                          ELSE [found   |-> TRUE,
                                content |-> Substring(s, openTagIndex, closeTagIndex),
                                start   |-> openTagIndex,
                                end     |-> closeTagIndex]

FindSvgTag(s, off) ==
    LET openTagIndex == FindOpenTag(s, off)
    IN  IF openTagIndex = -1 THEN Null
        ELSE LET openTagEndIndex == FindOpenTagEnd(s, openTagIndex + 4)
             IN  IF openTagEndIndex = -1 THEN Null
                 ELSE LET closeTagIndex == FindCloseTag(s, openTagEndIndex + 1)
                      IN  IF closeTagIndex = -1 THEN Null
                          ELSE [found   |-> TRUE,
                                content |-> Substring(s, openTagIndex, closeTagIndex + 6),
                                start   |-> openTagIndex,
                                end     |-> closeTagIndex + 6]

(***************************************************************************)
(* StructuralValidator: SvgProcessor.validateSvgStructure.                 *)
(***************************************************************************)
Valid == [isValid |-> TRUE, error |-> ""]

Invalid(reason) == [isValid |-> FALSE, error |-> reason]

BoundaryMismatch == "SVG must start with <svg and end with </svg>"

UnmatchedClosingTag == "Unmatched closing tag found"

UnbalancedDepth == "Unbalanced tags detected"

UnterminatedQuote == "Unclosed quote detected"

\* a faulty verdict: a non-zero final depth is reported as an unmatched
\* closing tag
ValidateSvgStructureOneReason(svgContent) ==
    IF ~StartsWithAt(Trim(svgContent), "<svg", 0) \/ ~EndsWith(Trim(svgContent), "</svg>")
    THEN Invalid(BoundaryMismatch)
    ELSE LET r == ForLoop("validate", svgContent, ScanStart(0, 0), Len(svgContent))
         IN  IF r.done \/ r.depth # 0 THEN Invalid(UnmatchedClosingTag)
             ELSE IF r.inQuote THEN Invalid(UnterminatedQuote)
             ELSE Valid

\* a faulty validator: the boundary check is skipped
ValidateSvgStructureNoBoundary(svgContent) ==
    LET r == ForLoop("validate", svgContent, ScanStart(0, 0), Len(svgContent))
    IN  IF r.done THEN Invalid(UnmatchedClosingTag)
        ELSE IF r.depth # 0 \/ r.inQuote
             THEN Invalid(IF r.depth # 0 THEN UnbalancedDepth ELSE UnterminatedQuote)
        ELSE Valid

\* a faulty verdict: an open quote is reported before a non-zero depth
ValidateSvgStructureQuoteFirst(svgContent) ==
    IF ~StartsWithAt(Trim(svgContent), "<svg", 0) \/ ~EndsWith(Trim(svgContent), "</svg>")
    THEN Invalid(BoundaryMismatch)
    ELSE LET r == ForLoop("validate", svgContent, ScanStart(0, 0), Len(svgContent))
         IN  IF r.done THEN Invalid(UnmatchedClosingTag)
             ELSE IF r.depth # 0 \/ r.inQuote
                  THEN Invalid(IF r.inQuote THEN UnterminatedQuote ELSE UnbalancedDepth)
             ELSE Valid

ValidateSvgStructure(svgContent) ==
    IF ~StartsWithAt(Trim(svgContent), "<svg", 0) \/ ~EndsWith(Trim(svgContent), "</svg>")
    THEN Invalid(BoundaryMismatch)
    ELSE LET r == ForLoop("validate", svgContent, ScanStart(0, 0), Len(svgContent))
         IN  IF r.done THEN Invalid(UnmatchedClosingTag)
             ELSE IF r.depth # 0 \/ r.inQuote
                  THEN Invalid(IF r.depth # 0 THEN UnbalancedDepth ELSE UnterminatedQuote)
             ELSE Valid

(***************************************************************************)
(* ContentNormalizer: SvgProcessor.cleanSvgContent and its steps.          *)
(***************************************************************************)
SvgNamespace == "xmlns=\"http://www.w3.org/2000/svg\""

XlinkNamespace == "xmlns:xlink=\"http://www.w3.org/1999/xlink\""

\* the index of the first quote character at or after from, -1 when none
NextQuote(s, from) ==
    LET hits == {j \in from..(Len(s) - 1) : IsQuote(CharAt(s, j))}
    IN  IF hits = {} THEN -1 ELSE SetMin(hits)

\* svgContent.replace(/<!--(?!>)[\s\S]*?-->/g, '')
RECURSIVE StripCommentsFrom(_, _)
StripCommentsFrom(s, from) ==
    LET starts == {i \in from..(Len(s) - 7) :
                      /\ StartsWithAt(s, "<!--", i)
                      /\ CharAt(s, i + 4) # ">"
                      /\ IndexOf(s, "-->", i + 4) # -1}
    IN  IF starts = {} THEN SubstringFrom(s, from)
        ELSE LET i == SetMin(starts)
                 j == IndexOf(s, "-->", i + 4)
             IN  Substring(s, from, i) \o StripCommentsFrom(s, j + 3)

StripComments(s) == StripCommentsFrom(s, 0)

AddRequiredNamespaces(svgContent) ==
    LET s1 == IF ~Includes(svgContent, "xmlns=")
              THEN ReplaceFirst(svgContent, "<svg", "<svg " \o SvgNamespace)
              ELSE svgContent
    IN  IF Includes(s1, "xlink:") /\ ~Includes(s1, "xmlns:xlink=")
        THEN ReplaceFirst(s1, "<svg", "<svg " \o XlinkNamespace)
        ELSE s1

\* the first match at or after from of /name=["']([^"']+)["']/
AttrMatch(s, name, from) ==
    LET n == Len(name) + 1
        hits == {i \in from..(Len(s) - n - 3) :
                    /\ StartsWithAt(s, name \o "=", i)
                    /\ IsQuote(CharAt(s, i + n))
                    /\ NextQuote(s, i + n + 1) > i + n + 1}
    IN  IF hits = {} THEN Null
        ELSE LET i == SetMin(hits)
                 q == NextQuote(s, i + n + 1)
             IN  [found |-> TRUE, index |-> i,
                  group |-> Substring(s, i + n + 1, q), end |-> q + 1]

IsDigitOrDot(c) == c \in {"0", "1", "2", "3", "4", "5", "6", "7", "8", "9", "."}

\* value.replace(/[^\d.]/g, '')
RECURSIVE StripNonNumeric(_)
StripNonNumeric(v) ==
    IF v = "" THEN ""
    ELSE (IF IsDigitOrDot(CharAt(v, 0)) THEN CharAt(v, 0) ELSE "")
         \o StripNonNumeric(SubstringFrom(v, 1))

\* a faulty handleDimensions: the default height is added before the default
\* width
HandleDimensionsHeightFirst(svgContent) ==
    LET viewBox == AttrMatch(svgContent, "viewBox", 0)
        width   == AttrMatch(svgContent, "width", 0)
        height  == AttrMatch(svgContent, "height", 0)
        s1 == IF ~viewBox.found
              THEN IF width.found /\ height.found
                   THEN ReplaceFirst(svgContent, "<svg",
                            "<svg viewBox=\"0 0 " \o StripNonNumeric(width.group)
                            \o " " \o StripNonNumeric(height.group) \o "\"")
                   ELSE ReplaceFirst(svgContent, "<svg", "<svg viewBox=\"0 0 300 200\"")
              ELSE svgContent
        s2 == IF ~height.found THEN ReplaceFirst(s1, "<svg", "<svg height=\"200\"") ELSE s1
    IN  IF ~width.found THEN ReplaceFirst(s2, "<svg", "<svg width=\"300\"") ELSE s2

HandleDimensions(svgContent) ==
    LET viewBox == AttrMatch(svgContent, "viewBox", 0)
        width   == AttrMatch(svgContent, "width", 0)
        height  == AttrMatch(svgContent, "height", 0)
        s1 == IF ~viewBox.found
              THEN IF width.found /\ height.found
                   THEN ReplaceFirst(svgContent, "<svg",
                            "<svg viewBox=\"0 0 " \o StripNonNumeric(width.group)
                            \o " " \o StripNonNumeric(height.group) \o "\"")
                   ELSE ReplaceFirst(svgContent, "<svg", "<svg viewBox=\"0 0 300 200\"")
              ELSE svgContent
        s2 == IF ~width.found THEN ReplaceFirst(s1, "<svg", "<svg width=\"300\"") ELSE s1
    IN  IF ~height.found THEN ReplaceFirst(s2, "<svg", "<svg height=\"200\"") ELSE s2

RefTypes == <<"filter", "clip-path", "mask", "pattern", "linearGradient", "radialGradient">>

\* the IdentifierSet: every group of the global /id=["']([^"']+)["']/g
RECURSIVE CollectIds(_, _)
CollectIds(s, from) ==
    LET m == AttrMatch(s, "id", from)
    IN  IF ~m.found THEN {} ELSE {m.group} \cup CollectIds(s, m.end)

DefinedIds(s) == CollectIds(s, 0)

\* new RegExp(`${refType}=["']url\\(#([^)]+)\\)["']`, 'g') matches at index i
RefAt(s, refType, i) ==
    LET n == Len(refType) + 1
        close == IndexOf(s, ")", i + n + 6)
    IN  /\ StartsWithAt(s, refType \o "=", i)
        /\ i + n < Len(s)
        /\ IsQuote(CharAt(s, i + n))
        /\ StartsWithAt(s, "url(#", i + n + 1)
        /\ close > i + n + 6
        /\ close + 1 < Len(s)
        /\ IsQuote(CharAt(s, close + 1))

\* the match at index i: its text, its group and where it ends
RefMatchAt(s, refType, i) ==
    LET n == Len(refType) + 1
        close == IndexOf(s, ")", i + n + 6)
    IN  [found |-> TRUE, index |-> i,
         full  |-> Substring(s, i, close + 2),
         refId |-> Substring(s, i + n + 6, close),
         end   |-> close + 2]

\* refRegex.exec(svgContent) of a regex without the g flag: the scan starts
\* over at every call
RefMatchFromStart(s, refType, lastIndex) ==
    LET hits == {i \in 0..Len(s) : RefAt(s, refType, i)}
    IN  IF hits = {} THEN Null ELSE RefMatchAt(s, refType, SetMin(hits))

\* refRegex.exec(svgContent) from lastIndex
RefMatch(s, refType, lastIndex) ==
    LET hits == {i \in lastIndex..Len(s) : RefAt(s, refType, i)}
    IN  IF hits = {} THEN Null ELSE RefMatchAt(s, refType, SetMin(hits))

\* the while loop over one reference kind: the text is rewritten while the
\* regex keeps its lastIndex
RECURSIVE PruneLoop(_, _, _, _)
PruneLoop(s, refType, lastIndex, definedIds) ==
    LET refMatch == RefMatch(s, refType, lastIndex)
    IN  IF ~refMatch.found THEN s
        ELSE IF refMatch.refId \notin definedIds
             THEN PruneLoop(ReplaceFirst(s, refMatch.full, ""), refType,
                            refMatch.end, definedIds)
             ELSE PruneLoop(s, refType, refMatch.end, definedIds)

RECURSIVE PruneKinds(_, _, _)
PruneKinds(s, k, definedIds) ==
    IF k > Len(RefTypes) THEN s
    ELSE PruneKinds(PruneLoop(s, RefTypes[k], 0, definedIds), k + 1, definedIds)

\* a faulty pruning, the blanket strip: every reference goes, declared or not
ProcessReferencesBlanket(svgContent) == PruneKinds(svgContent, 1, {})

ProcessReferences(svgContent) == PruneKinds(svgContent, 1, DefinedIds(svgContent))

\* vscode.Uri.parse(href) of the host: the scheme is what precedes the first
\* ":" when no "/", "?" or "#" comes before it, and a scheme with a space in
\* it is rejected
HostUriThrows(href) ==
    LET colon  == IndexOf(href, ":", 0)
        scheme == Substring(href, 0, colon)
    IN  /\ colon > 0
        /\ ~Includes(scheme, "/") /\ ~Includes(scheme, "?") /\ ~Includes(scheme, "#")
        /\ Includes(scheme, " ")

\* vscode.Uri.parse(href).toString() of the host: a reference without a
\* scheme becomes a file URI
HostUriToString(href) ==
    IF Includes(href, ":") THEN href ELSE "file:///" \o href

\* the first match at or after from of
\* /<image[^>]+xlink:href=["']([^"']+)["'][^>]*>/g
ImageMatch(s, from) ==
    LET hrefAt(i) ==
            LET limit == IndexOf(s, ">", i + 6)
                last  == IF limit = -1 THEN Len(s) ELSE limit
                ps == {p \in (i + 7)..last :
                          /\ StartsWithAt(s, "xlink:href=", p)
                          /\ p + 12 < Len(s)
                          /\ IsQuote(CharAt(s, p + 11))
                          /\ NextQuote(s, p + 12) > p + 12
                          /\ IndexOf(s, ">", NextQuote(s, p + 12) + 1) # -1}
            IN  IF ps = {} THEN -1 ELSE SetMax(ps)
        hits == {i \in from..(Len(s) - 6) :
                    StartsWithAt(s, "<image", i) /\ hrefAt(i) # -1}
    IN  IF hits = {} THEN Null
        ELSE LET i == SetMin(hits)
                 p == hrefAt(i)
                 q == NextQuote(s, p + 12)
                 e == IndexOf(s, ">", q + 1)
             IN  [found |-> TRUE, index |-> i,
                  full  |-> Substring(s, i, e + 1),
                  href  |-> Substring(s, p + 12, q),
                  end   |-> e + 1]

\* the outcome of a call: the value it returns, or an error that escapes it
Returned(value) == [raised |-> FALSE, value |-> value]

Raised == [raised |-> TRUE, value |-> ""]

\* a faulty replacer: what the host throws is not caught
ImageReplacerUncaught(full, href) ==
    IF StartsWithAt(href, "data:", 0) THEN Returned(full)
    ELSE IF HostUriThrows(href) THEN Raised
    ELSE Returned(ReplaceFirst(full, href, HostUriToString(href)))

\* the replacer of handleImageReferences: try { ... } catch { return match }
ImageReplacer(full, href) ==
    IF StartsWithAt(href, "data:", 0) THEN Returned(full)
    ELSE IF HostUriThrows(href) THEN Returned(full)
    ELSE Returned(ReplaceFirst(full, href, HostUriToString(href)))

ResolveImage(full, href) == ImageReplacer(full, href).value

\* every match of the image regex in s at or after from
RECURSIVE ImageMatches(_, _)
ImageMatches(s, from) ==
    LET m == ImageMatch(s, from)
    IN  IF ~m.found THEN {} ELSE {m} \cup ImageMatches(s, m.end)

RECURSIVE ImageLoop(_, _)
ImageLoop(s, from) ==
    LET m == ImageMatch(s, from)
    IN  IF ~m.found THEN SubstringFrom(s, from)
        ELSE Substring(s, from, m.index) \o ResolveImage(m.full, m.href)
             \o ImageLoop(s, m.end)

HandleImageReferences(svgContent) == ImageLoop(svgContent, 0)

\* a faulty replacer: a tag without a declaration is left without one
NestedOpenTagUnchanged(openTag) == openTag

\* the replacer of handleNestedSvgs, applied to one match's opening tag
NestedOpenTag(openTag) ==
    IF ~Includes(openTag, "xmlns=")
    THEN ReplaceFirst(openTag, "<svg", "<svg " \o SvgNamespace)
    ELSE openTag

\* svgContent.replace(/(<svg[^>]*>)([\s\S]*?)(<\/svg>)/g, replacer)
RECURSIVE NestedLoop(_, _)
NestedLoop(s, from) ==
    LET closeOf(i) == IndexOf(s, "</svg>", IndexOf(s, ">", i + 4) + 1)
        hits == {i \in from..(Len(s) - 11) :
                    /\ StartsWithAt(s, "<svg", i)
                    /\ IndexOf(s, ">", i + 4) # -1
                    /\ closeOf(i) # -1}
    IN  IF hits = {} THEN SubstringFrom(s, from)
        ELSE LET i == SetMin(hits)
                 g == IndexOf(s, ">", i + 4)
                 c == closeOf(i)
             IN  Substring(s, from, i) \o NestedOpenTag(Substring(s, i, g + 1))
                 \o Substring(s, g + 1, c) \o "</svg>" \o NestedLoop(s, c + 6)

HandleNestedSvgs(svgContent) == NestedLoop(svgContent, 0)

\* the text after each step of cleanSvgContent
CleanSteps(svgContent) ==
    LET s1 == StripComments(svgContent)
        s2 == AddRequiredNamespaces(s1)
        s3 == HandleDimensions(s2)
        s4 == ProcessReferences(s3)
        s5 == HandleImageReferences(s4)
        s6 == HandleNestedSvgs(s5)
    IN  [comments |-> s1, namespaces |-> s2, dimensions |-> s3,
         references |-> s4, images |-> s5, nested |-> s6]

CleanSvgContent(svgContent) == CleanSteps(svgContent).nested

\* an error escapes cleanSvgContent, whose steps gave result: the replacer of
\* the image step is the only call in it that can raise one
CleanRaises(result) ==
    \E m \in ImageMatches(result.references, 0) : ImageReplacer(m.full, m.href).raised

(***************************************************************************)
(* SvgHoverProvider, the monolith of extension.ts that SvgProcessor was    *)
(* taken from.                                                             *)
(***************************************************************************)
\* checkForSvgTag(document, position); quoteChar lives on from the first
\* loop into the second
CheckForSvgTag(s, off) ==
    LET openTagIndex == LastIndexOf(s, "<svg", off)
    IN  IF openTagIndex = -1 THEN Null
        ELSE LET first == ForLoop("checkForSvgTag.open", s,
                                  ScanStart(openTagIndex + 4, 1), Len(s))
                 openTagEndIndex == first.result
             IN  IF openTagEndIndex = -1 THEN Null
                 ELSE LET second ==
                              ForLoop("checkForSvgTag.close", s,
                                      [i |-> openTagEndIndex + 1, depth |-> 1,
                                       inQuote |-> FALSE,
                                       quoteChar |-> first.quoteChar,
                                       done |-> FALSE, result |-> -1],
                                      Len(s))
                          closeTagIndex == second.result
                      IN  IF closeTagIndex = -1 THEN Null
                          ELSE [found   |-> TRUE,
                                content |-> Substring(s, openTagIndex, closeTagIndex + 6),
                                start   |-> openTagIndex,
                                end     |-> closeTagIndex + 6]

\* the monolith's validateSvgStructure(svgContent): a boolean
MonolithValidateSvgStructure(svgContent) ==
    IF \/ ~StartsWithAt(Trim(svgContent), "<svg", 0)
       \/ ~EndsWith(Trim(svgContent), "</svg>")
    THEN FALSE
    ELSE LET r == ForLoop("monolith.validate", svgContent, ScanStart(0, 0),
                          Len(svgContent))
         IN  IF r.done THEN FALSE
             ELSE r.depth = 0 /\ ~r.inQuote

\* the second pass of the monolith's cleanSvgContent over one reference
\* kind
RECURSIVE MonolithPruneLoop(_, _, _, _)
MonolithPruneLoop(s, refType, lastIndex, definedIds) ==
    LET refMatch == RefMatch(s, refType, lastIndex)
    IN  IF ~refMatch.found THEN s
        ELSE IF refMatch.refId \in definedIds
             THEN MonolithPruneLoop(s, refType, refMatch.end, definedIds)
             ELSE MonolithPruneLoop(ReplaceFirst(s, refMatch.full, ""), refType,
                                    refMatch.end, definedIds)

RECURSIVE MonolithPruneKinds(_, _, _)
MonolithPruneKinds(s, k, definedIds) ==
    IF k > Len(RefTypes) THEN s
    ELSE MonolithPruneKinds(MonolithPruneLoop(s, RefTypes[k], 0, definedIds),
                            k + 1, definedIds)

\* the replacer of the monolith's image step
MonolithImageReplacer(full, href) ==
    IF StartsWithAt(href, "data:", 0) THEN full
    ELSE IF HostUriThrows(href) THEN full
    ELSE ReplaceFirst(full, href, HostUriToString(href))

RECURSIVE MonolithImageLoop(_, _)
MonolithImageLoop(s, from) ==
    LET m == ImageMatch(s, from)
    IN  IF ~m.found THEN SubstringFrom(s, from)
        ELSE Substring(s, from, m.index) \o MonolithImageReplacer(m.full, m.href)
             \o MonolithImageLoop(s, m.end)

\* the replacer of the monolith's nested step, and the replace with
\* /(<svg[^>]*>)([\s\S]*?)(<\/svg>)/g
RECURSIVE MonolithNestedLoop(_, _)
MonolithNestedLoop(s, from) ==
    LET closeOf(i) == IndexOf(s, "</svg>", IndexOf(s, ">", i + 4) + 1)
        hits == {i \in from..(Len(s) - 11) :
                    /\ StartsWithAt(s, "<svg", i)
                    /\ IndexOf(s, ">", i + 4) # -1
                    /\ closeOf(i) # -1}
    IN  IF hits = {} THEN SubstringFrom(s, from)
        ELSE LET i == SetMin(hits)
                 g == IndexOf(s, ">", i + 4)
                 c == closeOf(i)
                 openTag == Substring(s, i, g + 1)
             IN  Substring(s, from, i)
                 \o (IF ~Includes(openTag, "xmlns=")
                     THEN ReplaceFirst(openTag, "<svg",
                                       "<svg xmlns=\"http://www.w3.org/2000/svg\"")
                     ELSE openTag)
                 \o Substring(s, g + 1, c) \o "</svg>" \o MonolithNestedLoop(s, c + 6)

\* the monolith's cleanSvgContent(svgContent), its steps inline
MonolithCleanSvgContent(svgContent) ==
    LET comments == StripComments(svgContent)
        named == IF ~Includes(comments, "xmlns=")
                 THEN ReplaceFirst(comments, "<svg",
                                   "<svg xmlns=\"http://www.w3.org/2000/svg\"")
                 ELSE comments
        linked == IF Includes(named, "xlink:") /\ ~Includes(named, "xmlns:xlink=")
                  THEN ReplaceFirst(named, "<svg",
                                    "<svg xmlns:xlink=\"http://www.w3.org/1999/xlink\"")
                  ELSE named
        viewBox == AttrMatch(linked, "viewBox", 0)
        width   == AttrMatch(linked, "width", 0)
        height  == AttrMatch(linked, "height", 0)
        boxed == IF ~viewBox.found
                 THEN IF width.found /\ height.found
                      THEN ReplaceFirst(linked, "<svg",
                               "<svg viewBox=\"0 0 " \o StripNonNumeric(width.group)
                               \o " " \o StripNonNumeric(height.group) \o "\"")
                      ELSE ReplaceFirst(linked, "<svg", "<svg viewBox=\"0 0 300 200\"")
                 ELSE linked
        wide == IF ~width.found \/ ~height.found
                THEN IF ~width.found
                     THEN ReplaceFirst(boxed, "<svg", "<svg width=\"300\"")
                     ELSE boxed
                ELSE boxed
        high == IF ~width.found \/ ~height.found
                THEN IF ~height.found
                     THEN ReplaceFirst(wide, "<svg", "<svg height=\"200\"")
                     ELSE wide
                ELSE wide
        pruned == MonolithPruneKinds(high, 1, CollectIds(high, 0))
        images == MonolithImageLoop(pruned, 0)
    IN  MonolithNestedLoop(images, 0)

(***************************************************************************)
(* JsonProcessor: file references.                                         *)
(***************************************************************************)
\* the class [\w\-\.] of the file-name pattern
FileNameChars ==
    {"a", "b", "c", "d", "e", "f", "g", "h", "i", "j", "k", "l", "m",
     "n", "o", "p", "q", "r", "s", "t", "u", "v", "w", "x", "y", "z",
     "A", "B", "C", "D", "E", "F", "G", "H", "I", "J", "K", "L", "M",
     "N", "O", "P", "Q", "R", "S", "T", "U", "V", "W", "X", "Y", "Z",
     "0", "1", "2", "3", "4", "5", "6", "7", "8", "9", "_", "-", "."}

\* word.match(/^[\w\-\.]+\.svg$/): the characters before a final ".svg" are
\* of the class and there is at least one
MatchesFileName(word) ==
    /\ Len(word) > Len(".svg")
    /\ EndsWith(word, ".svg")
    /\ \A i \in 0..(Len(word) - Len(".svg") - 1) : CharAt(word, i) \in FileNameChars

FileReference(word) == [found |-> TRUE, filePath |-> word]

\* validateSvgReference without the test of the extension
ValidateSvgReferenceAnySuffix(word) ==
    IF Includes(word, "/") \/ Includes(word, "\\") \/ MatchesFileName(word)
    THEN FileReference(word)
    ELSE Null

\* validateSvgReference(word, range): the reference, or null
ValidateSvgReference(word) ==
    IF ~EndsWith(word, ".svg")
    THEN Null
    ELSE IF Includes(word, "/") \/ Includes(word, "\\") \/ MatchesFileName(word)
         THEN FileReference(word)
         ELSE Null

\* extractSvgReferences(document, position): null without a word range, the
\* verdict on the word otherwise
ExtractSvgReferences(wordRange) ==
    IF ~wordRange.found
    THEN Null
    ELSE ValidateSvgReference(wordRange.word)

(***************************************************************************)
(* SvgHoverManager: the hover of an invocation and the auto-hide timer.    *)
(***************************************************************************)
\* the delay of the auto-hide timer, in milliseconds
HideDelay == 1800

\* the invocations of provideHover
Calls == 1..MaxCalls

\* document.getWordRangeAtPosition(position) of the host: undefined, or the
\* run of characters other than white space around the offset
WordRanges(s, o) ==
    LET starts == {i \in 0..o : i = 0 \/ IsSpace(CharAt(s, i - 1))}
        ends   == {j \in o..Len(s) : j = Len(s) \/ IsSpace(CharAt(s, j))}
        start  == SetMax(starts)
        end    == SetMin(ends)
    IN  {Null} \cup
        (IF start < end
         THEN {[found |-> TRUE, word |-> Substring(s, start, end)]}
         ELSE {})

\* if (!wordRange) return null, without the test
HasWordRangeAlways(wordRange) == TRUE

\* if (!wordRange) return null
HasWordRange(wordRange) == wordRange.found

\* the message of the error createSvgTagHover throws on a rejected verdict
ThrownMessage(validationResult) ==
    IF validationResult.error = ""
    THEN "Invalid SVG structure"
    ELSE validationResult.error

ErrorPrefix == "Error: Could not create SVG preview. "

MalformedGuidance ==
    "The SVG element is malformed or incomplete. Please check:\n"
        \o "- Opening and closing tags are properly matched\n"
        \o "- Required attributes (xmlns, width, height) are present\n"
        \o "- No unclosed elements or attributes"

UnsupportedGuidance ==
    "The SVG contains invalid or unsupported elements:\n"
        \o "- Check for broken references to filters, patterns, or gradients\n"
        \o "- Verify all referenced IDs exist in the SVG\n"
        \o "- Ensure all required namespaces are declared"

UnexpectedPrefix == "An unexpected error occurred:\n- "

\* createErrorMessage that reports no message
CreateErrorMessageFixed(message) == ErrorPrefix \o UnexpectedPrefix

\* createErrorMessage(error) for an Error with the message
CreateErrorMessage(message) ==
    IF Includes(message, "Invalid SVG structure")
    THEN ErrorPrefix \o MalformedGuidance
    ELSE IF Includes(message, "validation failed")
         THEN ErrorPrefix \o UnsupportedGuidance
         ELSE ErrorPrefix \o UnexpectedPrefix \o message

\* the hovers an invocation returns; a preview is given by the content of
\* its command
NoHover == [kind |-> "none"]

NullHover == [kind |-> "null"]

PreviewHover(cleanedSvg) == [kind |-> "preview", content |-> cleanedSvg]

ErrorHover(value) == [kind |-> "error", value |-> value]

FileHover(filePath) == [kind |-> "file", filePath |-> filePath]

\* the timers of the host
NoTimer == [state |-> "unset", remaining |-> 0]

\* clearTimeout that cancels nothing
ClearTimeoutNoop(table, id) == table

\* clearTimeout(id): a pending timer is cancelled
ClearTimeout(table, id) ==
    IF id # 0 /\ table[id].state = "pending"
    THEN [table EXCEPT ![id].state = "cleared"]
    ELSE table

\* setTimeout(callback, 1800), whose handle is id
SetTimeout(table, id) ==
    [table EXCEPT ![id] = [state |-> "pending", remaining |-> HideDelay]]

\* setupAutoHide(): the table of the host afterwards; the new handle is
\* stored in hideTimer
SetupAutoHide(table, handle, id) ==
    SetTimeout(IF handle # 0 THEN ClearTimeout(table, handle) ELSE table, id)

(***************************************************************************)
(* The documents and fragments the functions are applied to.               *)
(***************************************************************************)
\* the document of the extension's test suite
TestDocument == "<svg><circle cx=\"50\" cy=\"50\" r=\"40\"/></svg>"

NestedDocument == "<svg><svg></svg></svg>"

RectDocument == "<svg><rect></svg>"

QuotedDocument == "<svg a=\"</svg>\"><g></g></svg> x"

FillDocument == "<svg><rect fill=\"url(#missing)\"/></svg>"

GradientDocument ==
    "<svg><defs><linearGradient id=\"g\"/></defs><rect fill=\"url(#g)\"/></svg>"

LocateTokens == {"<svg", ">", "</svg>", "\"", "'", "x"}

RECURSIVE TokenDocs(_)
TokenDocs(n) ==
    IF n = 0 THEN {""}
    ELSE LET prev == TokenDocs(n - 1)
         IN  prev \cup {d \o t : d \in prev, t \in LocateTokens}

LocateDocs ==
    TokenDocs(MaxTokens)
        \cup {TestDocument, NestedDocument, RectDocument, QuotedDocument}

\* single well-formed <svg> elements with balanced quotes
WellFormedDocs ==
    {TestDocument, NestedDocument, "<svg></svg>", "<svg>x</svg>",
     "<svg a=\">\"><g></g></svg>"}

ValidateTokens == {"<svg", "</svg>", "<g>", "</g>", ">", "\"", "'"}

RECURSIVE ValidateBodies(_)
ValidateBodies(n) ==
    IF n = 0 THEN {""}
    ELSE LET prev == ValidateBodies(n - 1)
         IN  prev \cup {d \o t : d \in prev, t \in ValidateTokens}

\* the texts validate is applied to: with and without the boundary tokens,
\* with and without surrounding white space
ValidateDocs ==
    {pre \o body \o post : pre \in {"", "<svg", " <svg"},
                           body \in ValidateBodies(MaxValidateTokens),
                           post \in {"", "</svg>", "</svg> "}}

RootTags ==
    {"<svg>", "<svg width=\"10\" height=\"20\">",
     "<svg xmlns=\"http://www.w3.org/2000/svg\">"}

ChildElements ==
    {"<g filter=\"url(#a)\"></g>",
     "<g filter=\"url(#b)\"></g>",
     "<g id=\"g\" filter=\"url(#f)\" mask=\"url(#m)\"></g>",
     "<filter id=\"f\"></filter>",
     "<rect fill=\"url(#missing)\"></rect>",
     "<rect x=\"1\" fill=\"url(#missing)\"/>",
     "<svg></svg>",
     "<g><svg></svg></g>"}

RECURSIVE ChildLists(_)
ChildLists(n) ==
    IF n = 0 THEN {""}
    ELSE LET prev == ChildLists(n - 1)
         IN  prev \cup {d \o c : d \in prev, c \in ChildElements}

FragmentDocs ==
    {r \o body \o "</svg>" : r \in RootTags, body \in ChildLists(MaxChildren)}
        \cup {FillDocument, GradientDocument, "<svg><svg><svg></svg></svg></svg>"}

\* root tags and children that carry dimensions, namespaces, image
\* references, comments and CDATA sections
NormalizeRoots ==
    {"<svg>",
     "<svg width=\"10\" height=\"20\">",
     "<svg width=\"10px\" height=\"2.5em\">",
     "<svg height=\"20\">",
     "<svg xmlns=\"http://www.w3.org/2000/svg\" viewBox=\"0 0 5 5\">",
     "<svg stroke-width=\"3\" width=\"10\" height=\"20\">"}

NormalizeChildren ==
    {"<rect width=\"5\" height=\"6\"></rect>",
     "<svg xmlns=\"http://www.w3.org/2000/svg\"></svg>",
     "<image xlink:href=\"p.png\"></image>",
     "<image xlink:href=\"a b:c\"></image>",
     "<image width=\"5\" height=\"5\" xlink:href=\"5\"></image>",
     "<!--</a>-->",
     "<![CDATA[<!--</a>--></b>]]>"}

RECURSIVE NormalizeBodies(_)
NormalizeBodies(n) ==
    IF n = 0 THEN {""}
    ELSE LET prev == NormalizeBodies(n - 1)
         IN  prev \cup {d \o c : d \in prev, c \in NormalizeChildren}

NormalizeDocs ==
    {r \o body \o "</svg>" : r \in NormalizeRoots,
                             body \in NormalizeBodies(MaxNormalizeChildren)}

\* the words the file-reference test is applied to
ReferenceTokens == {"icon", ".svg", "/", "\\", "-", ".", "_backup", "@", " "}

RECURSIVE ReferenceTokenWords(_)
ReferenceTokenWords(n) ==
    IF n = 0 THEN {""}
    ELSE LET prev == ReferenceTokenWords(n - 1)
         IN  prev \cup {w \o t : w \in prev, t \in ReferenceTokens}

ReferenceWords ==
    ReferenceTokenWords(MaxReferenceTokens)
        \cup {"icon.svg", "./assets/icon.svg", "description.svg_backup"}

\* the documents of the hover invocations: fragments that validate accepts
\* and rejects, file references, and words that are neither
HoverDocs ==
    {"<svg></svg> icon.svg",
     "<svg><rect></svg>",
     "a/b.svg <svg></g></g></svg>",
     "x.svg_backup <svg> icon.svg </svg>",
     "<svg></svg><svg><g></svg>"}

\* the offsets of the hover invocations: the ends of the document and the
\* offsets behind white space
HoverOffsets(s) ==
    {0, Len(s)} \cup {i \in 1..Len(s) : IsSpace(CharAt(s, i - 1))}

\* the texts of the pruning loop: references with and without a declaration
\* of their identifier, of several kinds, repeated and in either quote
PruneTokens ==
    {"filter=\"url(#a)\" ", "filter=\"url(#b)\" ", "mask='url(#a)' ",
     "mask=\"url(#c)\" ", "id=\"a\" "}

RECURSIVE PruneTexts(_)
PruneTexts(n) ==
    IF n = 0 THEN {""}
    ELSE LET prev == PruneTexts(n - 1)
         IN  prev \cup {d \o t : d \in prev, t \in PruneTokens}

PruneDocs == {"<svg " \o d \o "></svg>" : d \in PruneTexts(MaxPruneTokens)}

\* the documents both versions are applied to: every document of up to
\* MaxRefactorTokens tokens, and fragments with something for each step of
\* cleanSvgContent, inside a line of text
RefactorFragments ==
    {TestDocument, NestedDocument, RectDocument, QuotedDocument,
     "<svg width=\"10px\" height=\"2.5em\"><!--c--></svg>",
     "<svg height=\"20\"><g filter=\"url(#a)\"/></svg>",
     "<svg viewBox=\"0 0 5 5\" xmlns=\"http://www.w3.org/2000/svg\"><svg></svg></svg>",
     "<svg><image xlink:href=\"p.png\"/><image xlink:href='a b:c'/></svg>",
     "<svg><filter id=\"f\"/><g filter=\"url(#f)\" mask='url(#m)'/></svg>",
     "<svg stroke-width=\"3\"><image width=\"5\" xlink:href=\"5\"/></svg>"}

RefactorDocs ==
    TokenDocs(MaxRefactorTokens) \cup {"a " \o f \o " z" : f \in RefactorFragments}

(***************************************************************************)
(* The state machine: a document is open; the collaborator locates a       *)
(* fragment at an offset, validates it and normalizes it.                  *)
(***************************************************************************)
NoVerdict == [isValid |-> FALSE, error |-> "none"]

NoSteps ==
    [comments |-> "", namespaces |-> "", dimensions |-> "",
     references |-> "", images |-> "", nested |-> ""]

\* processReferences before it is called
NoPrune ==
    [content |-> "", kind |-> 0, lastIndex |-> 0, definedIds |-> {},
     refMatch |-> Null]

\* an invocation of provideHover before it has begun
IdleCall ==
    [pc |-> "idle", offset |-> 0, wordRange |-> Null, match |-> Null,
     verdict |-> NoVerdict, normalized |-> FALSE, cleaned |-> "",
     referenced |-> FALSE, reference |-> Null, hover |-> NoHover]

\* the manager after construction
NoInvocations ==
    /\ calls = [c \in Calls |-> IdleCall]
    /\ hideTimer = 0
    /\ timers = [c \in Calls |-> NoTimer]
    /\ shown = 0

\* locate(text, offset)
Locate(o) ==
    /\ pc = "idle"
    /\ o \in 0..Len(text)
    /\ offset' = o
    /\ match' = FindSvgTag(text, o)
    /\ pc' = "located"
    /\ UNCHANGED <<text, verdict, steps, cleaned, recleaned>>
    /\ UNCHANGED hoverVars
    /\ UNCHANGED prune

\* validate(fragmentText) on the located fragment
Validate ==
    /\ pc = "located"
    /\ match.found
    /\ verdict' = ValidateSvgStructure(match.content)
    /\ pc' = "validated"
    /\ UNCHANGED <<text, offset, match, steps, cleaned, recleaned>>
    /\ UNCHANGED hoverVars
    /\ UNCHANGED prune

\* normalize(fragmentText) on the located fragment; steps records the text
\* after each step, and an error that escapes leaves no result
Clean ==
    /\ pc = "validated"
    /\ steps' = CleanSteps(match.content)
    /\ IF CleanRaises(steps')
       THEN /\ pc' = "failed"
            /\ cleaned' = cleaned
       ELSE /\ cleaned' = steps'.nested
            /\ pc' = "cleaned"
    /\ UNCHANGED <<text, offset, match, verdict, recleaned>>
    /\ UNCHANGED hoverVars
    /\ UNCHANGED prune

\* normalize applied to its own output
CleanAgain ==
    /\ pc = "cleaned"
    /\ recleaned' = CleanSvgContent(cleaned)
    /\ pc' = "recleaned"
    /\ UNCHANGED <<text, offset, match, verdict, steps, cleaned>>
    /\ UNCHANGED hoverVars
    /\ UNCHANGED prune

InitLocate ==
    /\ text \in LocateDocs
    /\ offset = 0
    /\ match = Null
    /\ verdict = NoVerdict
    /\ steps = NoSteps
    /\ cleaned = ""
    /\ recleaned = ""
    /\ pc = "idle"
    /\ NoInvocations
    /\ prune = NoPrune

NextLocate ==
    \/ \E o \in 0..Len(text) : Locate(o)
    \/ Validate

SpecLocate == InitLocate /\ [][NextLocate]_vars

\* the fragment of the document has been located at offset 0
InitClean ==
    /\ text \in FragmentDocs
    /\ offset = 0
    /\ match = FindSvgTag(text, 0)
    /\ verdict = NoVerdict
    /\ steps = NoSteps
    /\ cleaned = ""
    /\ recleaned = ""
    /\ pc = "located"
    /\ NoInvocations
    /\ prune = NoPrune

NextClean ==
    \/ Validate
    \/ Clean
    \/ CleanAgain

SpecClean == InitClean /\ [][NextClean]_vars

\* the fragment of the document has been located at offset 0
InitNormalize ==
    /\ text \in NormalizeDocs
    /\ offset = 0
    /\ match = FindSvgTag(text, 0)
    /\ verdict = NoVerdict
    /\ steps = NoSteps
    /\ cleaned = ""
    /\ recleaned = ""
    /\ pc = "located"
    /\ NoInvocations
    /\ prune = NoPrune

SpecNormalize == InitNormalize /\ [][NextClean]_vars

\* validate is applied to the whole text
InitValidate ==
    /\ text \in ValidateDocs
    /\ offset = 0
    /\ match = [found |-> TRUE, content |-> text, start |-> 0, end |-> Len(text)]
    /\ verdict = NoVerdict
    /\ steps = NoSteps
    /\ cleaned = ""
    /\ recleaned = ""
    /\ pc = "located"
    /\ NoInvocations
    /\ prune = NoPrune

NextValidate == Validate

SpecValidate == InitValidate /\ [][NextValidate]_vars

\* extractSvgReferences on a document that consists of one word
CheckReference ==
    /\ pc = "idle"
    /\ match' = ValidateSvgReference(text)
    /\ pc' = "referenced"
    /\ UNCHANGED <<text, offset, verdict, steps, cleaned, recleaned>>
    /\ UNCHANGED hoverVars
    /\ UNCHANGED prune

InitReference ==
    /\ text \in ReferenceWords
    /\ offset = 0
    /\ match = Null
    /\ verdict = NoVerdict
    /\ steps = NoSteps
    /\ cleaned = ""
    /\ recleaned = ""
    /\ pc = "idle"
    /\ NoInvocations
    /\ prune = NoPrune

NextReference == CheckReference

SpecReference == InitReference /\ [][NextReference]_vars

(***************************************************************************)
(* The hover manager: invocations of provideHover on the open document,    *)
(* the timers of the host and its display.                                 *)
(***************************************************************************)
\* svgTagMatch of another invocation
FragmentOfFirst(c) == calls[1].match

\* svgTagMatch of the invocation
Fragment(c) == calls[c].match

\* normalize whatever the verdict is
MayNormalizeAlways(c) == TRUE

\* if (!validationResult.isValid) throw
MayNormalize(c) == calls[c].verdict.isValid

\* provideHover(document, position): the word range of the host; without
\* one the invocation returns null
ProvideHover(c, o, w) ==
    /\ calls[c].pc = "idle"
    /\ calls' = [calls EXCEPT ![c] =
                    [@ EXCEPT !.offset = o,
                              !.wordRange = w,
                              !.hover = IF HasWordRange(w) THEN @ ELSE NullHover,
                              !.pc = IF HasWordRange(w) THEN "word" ELSE "done"]]
    /\ UNCHANGED <<hideTimer, timers, shown>>
    /\ UNCHANGED processorVars

\* svgProcessor.findSvgTag(document, position)
HoverFindSvgTag(c) ==
    /\ calls[c].pc = "word"
    /\ calls' = [calls EXCEPT ![c] =
                    [@ EXCEPT !.match = FindSvgTag(text, calls[c].offset),
                              !.pc = "located"]]
    /\ UNCHANGED <<hideTimer, timers, shown>>
    /\ UNCHANGED processorVars

\* createSvgTagHover: validateSvgStructure(svgContent)
TagHoverValidate(c) ==
    /\ calls[c].pc = "located"
    /\ Fragment(c).found
    /\ calls' = [calls EXCEPT ![c] =
                    [@ EXCEPT !.verdict = ValidateSvgStructure(Fragment(c).content),
                              !.pc = "validated"]]
    /\ UNCHANGED <<hideTimer, timers, shown>>
    /\ UNCHANGED processorVars

\* createSvgTagHover: cleanSvgContent(svgContent)
TagHoverClean(c) ==
    /\ calls[c].pc = "validated"
    /\ MayNormalize(c)
    /\ calls' = [calls EXCEPT ![c] =
                    [@ EXCEPT !.cleaned = CleanSvgContent(Fragment(c).content),
                              !.normalized = TRUE,
                              !.pc = "normalized"]]
    /\ UNCHANGED <<hideTimer, timers, shown>>
    /\ UNCHANGED processorVars

\* createSvgTagHover: the hover of the preview, or of the message of the
\* error thrown on a rejected verdict; setupAutoHide(); the host displays
\* the returned hover
TagHoverReturn(c) ==
    /\ \/ calls[c].pc = "normalized"
       \/ calls[c].pc = "validated" /\ ~MayNormalize(c)
    /\ calls' = [calls EXCEPT ![c] =
                    [@ EXCEPT !.hover =
                                  IF calls[c].pc = "normalized"
                                  THEN PreviewHover(calls[c].cleaned)
                                  ELSE ErrorHover(CreateErrorMessage(ThrownMessage(calls[c].verdict))),
                              !.pc = "done"]]
    /\ timers' = SetupAutoHide(timers, hideTimer, c)
    /\ hideTimer' = c
    /\ shown' = c
    /\ UNCHANGED processorVars

\* jsonProcessor.extractSvgReferences(document, position) when no fragment
\* was located, and createSvgFileHover with setupAutoHide() when it gives a
\* reference; null otherwise
HoverFileReference(c) ==
    /\ calls[c].pc = "located"
    /\ ~Fragment(c).found
    /\ calls' = [calls EXCEPT ![c] =
                    [@ EXCEPT !.referenced = TRUE,
                              !.reference = ExtractSvgReferences(calls[c].wordRange),
                              !.hover = IF ExtractSvgReferences(calls[c].wordRange).found
                                        THEN FileHover(calls[c].wordRange.word)
                                        ELSE NullHover,
                              !.pc = "done"]]
    /\ IF ExtractSvgReferences(calls[c].wordRange).found
       THEN /\ timers' = SetupAutoHide(timers, hideTimer, c)
            /\ hideTimer' = c
            /\ shown' = c
       ELSE UNCHANGED <<hideTimer, timers, shown>>
    /\ UNCHANGED processorVars

\* time passes while a timer is pending
TickMs == HideDelay \div 2

Tick ==
    /\ \E c \in Calls : timers[c].state = "pending" /\ timers[c].remaining > 0
    /\ timers' = [c \in Calls |->
                     IF timers[c].state = "pending" /\ timers[c].remaining > 0
                     THEN [timers[c] EXCEPT !.remaining = @ - TickMs]
                     ELSE timers[c]]
    /\ UNCHANGED <<calls, hideTimer, shown>>
    /\ UNCHANGED processorVars

\* the callback of a timer that is due: this.hideTimer = null
TimerFires(c) ==
    /\ timers[c].state = "pending"
    /\ timers[c].remaining = 0
    /\ timers' = [timers EXCEPT ![c].state = "ran"]
    /\ hideTimer' = 0
    /\ UNCHANGED <<calls, shown>>
    /\ UNCHANGED processorVars

\* the host hides the hover: the pointer has moved away
Dismiss ==
    /\ shown # 0
    /\ shown' = 0
    /\ UNCHANGED <<calls, hideTimer, timers>>
    /\ UNCHANGED processorVars

InitHover ==
    /\ text \in HoverDocs
    /\ offset = 0
    /\ match = Null
    /\ verdict = NoVerdict
    /\ steps = NoSteps
    /\ cleaned = ""
    /\ recleaned = ""
    /\ pc = "idle"
    /\ NoInvocations
    /\ prune = NoPrune

NextHover ==
    \/ \E c \in Calls :
           \E o \in HoverOffsets(text) : \E w \in WordRanges(text, o) :
               ProvideHover(c, o, w)
    \/ \E c \in Calls : HoverFindSvgTag(c)
    \/ \E c \in Calls : TagHoverValidate(c)
    \/ \E c \in Calls : TagHoverClean(c)
    \/ \E c \in Calls : TagHoverReturn(c)
    \/ \E c \in Calls : HoverFileReference(c)
    \/ Tick
    \/ \E c \in Calls : TimerFires(c)
    \/ Dismiss

SpecHover == InitHover /\ [][NextHover]_vars

\* createSvgTagHover(svgContent, range) on a whole text: the first invocation
\* has the text as its fragment
InitTagHover ==
    /\ text \in ValidateDocs
    /\ offset = 0
    /\ match = Null
    /\ verdict = NoVerdict
    /\ steps = NoSteps
    /\ cleaned = ""
    /\ recleaned = ""
    /\ pc = "idle"
    /\ calls = [c \in Calls |->
                   IF c = 1
                   THEN [IdleCall EXCEPT
                            !.pc = "located",
                            !.match = [found |-> TRUE, content |-> text,
                                       start |-> 0, end |-> Len(text)]]
                   ELSE IdleCall]
    /\ hideTimer = 0
    /\ timers = [c \in Calls |-> NoTimer]
    /\ shown = 0
    /\ prune = NoPrune

NextTagHover ==
    \/ \E c \in Calls : TagHoverValidate(c)
    \/ \E c \in Calls : TagHoverClean(c)
    \/ \E c \in Calls : TagHoverReturn(c)

SpecTagHover == InitTagHover /\ [][NextTagHover]_vars

(***************************************************************************)
(* processReferences, one iteration of its while loop at a time.           *)
(***************************************************************************)
\* while ((refMatch = refRegex.exec(svgContent)) !== null): the call of exec
\* in the loop condition; a match moves lastIndex of the regex behind it, no
\* match resets it
PruneExec ==
    /\ pc = "exec"
    /\ prune' =
           [prune EXCEPT
               !.refMatch = RefMatch(prune.content, RefTypes[prune.kind], prune.lastIndex),
               !.lastIndex =
                   IF RefMatch(prune.content, RefTypes[prune.kind], prune.lastIndex).found
                   THEN RefMatch(prune.content, RefTypes[prune.kind], prune.lastIndex).end
                   ELSE 0]
    /\ pc' = IF RefMatch(prune.content, RefTypes[prune.kind], prune.lastIndex).found
             THEN "body"
             ELSE "end"
    /\ UNCHANGED <<text, offset, match, verdict, steps, cleaned, recleaned>>
    /\ UNCHANGED hoverVars

\* the loop body: a reference whose identifier is not defined is deleted
\* from the text
PruneBody ==
    /\ pc = "body"
    /\ prune' =
           [prune EXCEPT
               !.content =
                   IF prune.refMatch.refId \notin prune.definedIds
                   THEN ReplaceFirst(prune.content, prune.refMatch.full, "")
                   ELSE prune.content]
    /\ pc' = "exec"
    /\ UNCHANGED <<text, offset, match, verdict, steps, cleaned, recleaned>>
    /\ UNCHANGED hoverVars

\* exec has returned null: the loop of the reference kind ends, and forEach
\* goes on with a new regex for the next kind or processReferences returns
PruneNextKind ==
    /\ pc = "end"
    /\ IF prune.kind < Len(RefTypes)
       THEN /\ prune' = [prune EXCEPT !.kind = prune.kind + 1, !.lastIndex = 0]
            /\ pc' = "exec"
       ELSE /\ prune' = prune
            /\ pc' = "pruned"
    /\ UNCHANGED <<text, offset, match, verdict, steps, cleaned, recleaned>>
    /\ UNCHANGED hoverVars

\* processReferences(svgContent) has collected the identifiers and made the
\* regex of the first reference kind
InitPrune ==
    /\ text \in PruneDocs
    /\ offset = 0
    /\ match = Null
    /\ verdict = NoVerdict
    /\ steps = NoSteps
    /\ cleaned = ""
    /\ recleaned = ""
    /\ pc = "exec"
    /\ calls = [c \in Calls |-> IdleCall]
    /\ hideTimer = 0
    /\ timers = [c \in Calls |-> NoTimer]
    /\ shown = 0
    /\ prune = [content |-> text, kind |-> 1, lastIndex |-> 0,
                definedIds |-> DefinedIds(text), refMatch |-> Null]

NextPrune ==
    \/ PruneExec
    \/ PruneBody
    \/ PruneNextKind

SpecPrune == InitPrune /\ [][NextPrune]_vars

\* the loop is synchronous code: it takes its next step as long as it has one
SpecPruneLive == SpecPrune /\ WF_vars(NextPrune)

\* locate, validate and normalize of SvgProcessor on the documents the
\* monolith is compared on
InitRefactor ==
    /\ text \in RefactorDocs
    /\ offset = 0
    /\ match = Null
    /\ verdict = NoVerdict
    /\ steps = NoSteps
    /\ cleaned = ""
    /\ recleaned = ""
    /\ pc = "idle"
    /\ NoInvocations
    /\ prune = NoPrune

NextRefactor ==
    \/ \E o \in 0..Len(text) : Locate(o)
    \/ Validate
    \/ Clean

SpecRefactor == InitRefactor /\ [][NextRefactor]_vars

(***************************************************************************)
(* Properties.                                                             *)
(***************************************************************************)
Located == pc \in {"located", "validated"}

Normalized == pc \in {"cleaned", "recleaned"}

\* C1: whenever locate returns a fragment, its span encloses the cursor:
\* start-offset <= offset <= end-offset.
C1_SpanEnclosesCursor ==
    (Located /\ match.found) => (match.start <= offset /\ offset <= match.end)

\* C2 as stated: in <svg><svg></svg></svg> an offset inside the inner element
\* gives the inner span 5..16, and offset 5, between the two opening tags,
\* gives the outer span 0..22.
C2_OuterAtOffsetFive ==
    (Located /\ text = NestedDocument) =>
        /\ offset \in 6..16 => (match.found /\ match.start = 5 /\ match.end = 16)
        /\ offset = 5 => (match.found /\ match.start = 0 /\ match.end = 22)

\* C2 amended: in <svg><svg></svg></svg> every offset from 5 (where the inner
\* <svg starts) to 16 gives the inner span 5..16, and the outer span 0..22 is
\* what the offsets 0..4, inside the outer opening tag, give.
C2_NestedSpans ==
    (Located /\ text = NestedDocument) =>
        /\ offset \in 5..16 =>
              (match.found /\ match.start = 5 /\ match.end = 16
                  /\ match.content = "<svg></svg>")
        /\ offset \in 0..4 =>
              (match.found /\ match.start = 0 /\ match.end = 22
                  /\ match.content = NestedDocument)

C2_Witness ==
    /\ pc = "located"
    /\ text = NestedDocument
    /\ offset = 5
    /\ match.found
    /\ match.start = 5
    /\ match.end = 16

\* C3: a fragment located in one well-formed <svg> element with balanced
\* quotes is always validated as Valid, self-closing children included.
C3_WellFormedIsValid ==
    (pc = "validated" /\ text \in WellFormedDocs) => verdict.isValid

\* C4 as stated: validate on <svg><rect></svg> rejects with the reason
\* 'Unmatched closing tag found'.
C4_RectUnmatchedClosing ==
    (pc = "validated" /\ match.content = RectDocument) =>
        verdict = Invalid(UnmatchedClosingTag)

\* C4 amended: validate on <svg><rect></svg> rejects with the reason
\* 'Unbalanced tags detected': the depth never goes below 0 and ends at 1.
C4_RectUnbalanced ==
    (pc = "validated" /\ match.content = RectDocument) =>
        verdict = Invalid(UnbalancedDepth)

C4_Witness ==
    /\ pc = "validated"
    /\ match.content = RectDocument
    /\ ~verdict.isValid
    /\ verdict.error = UnbalancedDepth

\* C5: normalize is idempotent on every fragment validate accepts:
\* normalizing the normalized text changes nothing.
C5_Idempotent ==
    (pc = "recleaned" /\ verdict.isValid) => recleaned = cleaned

\* C6: normalize on <svg><rect fill="url(#missing)"/></svg> removes the fill
\* attribute and keeps the rect element.
C6_FillPruned ==
    (Normalized /\ match.content = FillDocument) =>
        /\ ~Includes(cleaned, "fill=")
        /\ Includes(cleaned, "<rect")

\* the occurrences kind="url(#id)" of the pruned kinds whose id is not in ids
DanglingRefs(s, ids) ==
    {x \in (1..Len(RefTypes)) \X (0..Len(s)) :
        /\ RefAt(s, RefTypes[x[1]], x[2])
        /\ RefMatchAt(s, RefTypes[x[1]], x[2]).refId \notin ids}

\* C7: after normalize no occurrence kind="url(#id)" of a pruned kind is left
\* whose id is not in the IdentifierSet, however many there were.
C7_NoDanglingLeft ==
    pc = "cleaned" => DanglingRefs(cleaned, DefinedIds(cleaned)) = {}

\* s with every occurrence of kind="url(#id)", id not in ids, deleted
RECURSIVE WithoutDanglingOfKind(_, _, _, _)
WithoutDanglingOfKind(s, kind, from, ids) ==
    LET m == RefMatch(s, kind, from)
    IN  IF ~m.found THEN SubstringFrom(s, from)
        ELSE Substring(s, from, IF m.refId \in ids THEN m.end ELSE m.index)
             \o WithoutDanglingOfKind(s, kind, m.end, ids)

RECURSIVE WithoutDangling(_, _, _)
WithoutDangling(s, k, ids) ==
    IF k > Len(RefTypes) THEN s
    ELSE WithoutDangling(WithoutDanglingOfKind(s, RefTypes[k], 0, ids), k + 1, ids)

\* the occurrences kind="url(#id)" of the pruned kinds whose id is in ids,
\* each with the number of times it occurs
DeclaredRefs(s, ids) ==
    LET at == {x \in (1..Len(RefTypes)) \X (0..Len(s)) :
                  /\ RefAt(s, RefTypes[x[1]], x[2])
                  /\ RefMatchAt(s, RefTypes[x[1]], x[2]).refId \in ids}
        textOf(x) == RefMatchAt(s, RefTypes[x[1]], x[2]).full
    IN  {<<textOf(x), Cardinality({y \in at : textOf(y) = textOf(x)})>> : x \in at}

\* C8: normalize deletes no reference whose id is declared (fill="url(#g)"
\* with id="g" declared survives), and the pruning step changes the text only
\* by deleting the text of dangling references: apart from those, the text
\* before and after the step is the same.
C8_OnlyDanglingDeleted ==
    pc = "cleaned" =>
        LET ids == DefinedIds(steps.dimensions)
        IN  /\ WithoutDangling(steps.references, 1, ids)
                = WithoutDangling(steps.dimensions, 1, ids)
            /\ Len(steps.references) <= Len(steps.dimensions)
            /\ DefinedIds(steps.references) = ids
            /\ DeclaredRefs(cleaned, ids) = DeclaredRefs(match.content, ids)
            /\ match.content = GradientDocument =>
                   Includes(cleaned, "<rect fill=\"url(#g)\"/>")

C8_Witness ==
    /\ pc = "cleaned"
    /\ Includes(match.content, "id=\"f\"")
    /\ Includes(match.content, "mask=\"url(#m)\"")
    /\ ~Includes(cleaned, "mask=")
    /\ Includes(cleaned, "<g id=\"g\" filter=\"url(#f)\" ></g>")

\* the opening tags <svg ...> of s that carry no xmlns= declaration
BareSvgTags(s) ==
    {i \in 0..Len(s) :
        /\ StartsWithAt(s, "<svg", i)
        /\ IndexOf(s, ">", i) # -1
        /\ ~Includes(Substring(s, i, IndexOf(s, ">", i)), "xmlns=")}

\* C9: after normalize every <svg> element, the nested ones at any depth
\* included, carries a default-namespace declaration.
C9_NestedNamespaced ==
    Normalized => BareSvgTags(cleaned) = {}

\* C10: when no <svg token starts at or before the offset, locate returns
\* absence.
C10_NoOpenerIsAbsent ==
    (Located /\ \A i \in 0..offset : ~StartsWithAt(text, "<svg", i)) =>
        match = Null

C10_Witness ==
    /\ pc = "located"
    /\ \A i \in 0..offset : ~StartsWithAt(text, "<svg", i)
    /\ FindSvgTag(text, Len(text)).found
    /\ match = Null

\* the quote character open before each of the positions j, j + 1, ... of s
\* ("" when none is), q being the one open before j
RECURSIVE QuoteTrack(_, _, _)
QuoteTrack(s, j, q) ==
    IF j >= Len(s) THEN <<>>
    ELSE LET c == CharAt(s, j)
             next == IF q = "" THEN (IF IsQuote(c) THEN c ELSE "")
                     ELSE IF c = q THEN "" ELSE q
         IN  <<q>> \o QuoteTrack(s, j + 1, next)

\* the positions at or after from where pat occurs outside quotes, the quote
\* tracking starting at from
UnquotedAt(s, pat, from) ==
    LET open == QuoteTrack(s, from, "")
    IN  {j \in from..(Len(s) - 1) : open[j - from + 1] = "" /\ StartsWithAt(s, pat, j)}

\* the positions after the opening tag that starts at open where the nesting
\* depth (1 after the tag's unquoted >, +1 per unquoted <svg, -1 per unquoted
\* </svg>) is 0
DepthZeroAt(s, open) ==
    LET body   == SetMin(UnquotedAt(s, ">", open + 4)) + 1
        opens  == UnquotedAt(s, "<svg", body)
        closes == UnquotedAt(s, "</svg>", body)
    IN  {j \in body..(Len(s) - 1) :
            1 + Cardinality({k \in opens : k <= j})
              - Cardinality({k \in closes : k <= j}) = 0}

\* the opening tag nearest before the offset never closes, or the depth
\* after it never returns to 0
NeverCloses(s, off) ==
    LET open == SetMax({i \in 0..off : StartsWithAt(s, "<svg", i)})
    IN  \/ UnquotedAt(s, ">", open + 4) = {}
        \/ DepthZeroAt(s, open) = {}

\* C11: locate returns absence whenever the opening tag nearest before the
\* offset has no unquoted > after it, or the nesting depth after that tag
\* never returns to 0 before the end of the text.
C11_UnclosedIsAbsent ==
    (Located /\ (\E i \in 0..offset : StartsWithAt(text, "<svg", i))
             /\ NeverCloses(text, offset)) =>
        match = Null

\* an opening tag that closes and a </svg> follows, but inside a quote
C11_Witness ==
    /\ pc = "located"
    /\ \E i \in 0..offset : StartsWithAt(text, "<svg", i)
    /\ NeverCloses(text, offset)
    /\ LET gts == UnquotedAt(text, ">",
                      SetMax({i \in 0..offset : StartsWithAt(text, "<svg", i)}) + 4)
       IN  gts # {} /\ IndexOf(text, "</svg>", SetMin(gts) + 1) # -1
    /\ match = Null

\* C12: every fragment locate returns has start < end <= length(text), and
\* text[start..end], which is its content, begins with <svg and ends with
\* </svg>.
C12_SpanWellFormed ==
    (Located /\ match.found) =>
        /\ 0 <= match.start
        /\ match.start < match.end
        /\ match.end <= Len(text)
        /\ match.content = Substring(text, match.start, match.end)
        /\ StartsWithAt(match.content, "<svg", 0)
        /\ EndsWith(match.content, "</svg>")

\* a fragment that ends before the end of the text
C12_Witness ==
    /\ pc = "located"
    /\ match.found
    /\ match.start > 0
    /\ match.end < Len(text)

\* the unquoted < of s that open a tag, and those that close one
OpeningTags(s) == {k \in UnquotedAt(s, "<", 0) : ~StartsWithAt(s, "</", k)}

ClosingTags(s) == UnquotedAt(s, "</", 0)

\* the depth after each character of s: +1 on an opening tag, -1 on a
\* closing one
DepthTrack(s) ==
    LET opens  == OpeningTags(s)
        closes == ClosingTags(s)
    IN  [j \in 0..(Len(s) - 1) |->
            Cardinality({k \in opens : k <= j}) - Cardinality({k \in closes : k <= j})]

\* the quote character left open at the end of s, "" when none is
OpenQuoteAtEnd(s) == QuoteTrack(s \o " ", 0, "")[Len(s) + 1]

BoundaryOk(s) == StartsWithAt(Trim(s), "<svg", 0) /\ EndsWith(Trim(s), "</svg>")

\* C13: validate returns Valid exactly when the trimmed text starts with <svg
\* and ends with </svg> and, over the whole scan with quote tracking, the
\* depth never goes below 0, ends at 0 and no quote is left open; a depth
\* below 0 is rejected as an unmatched closing tag, and a boundary mismatch is
\* rejected whatever the scan would find.
C13_ValidExactlyWhen ==
    pc = "validated" =>
        LET s == match.content
            depth == DepthTrack(s)
            negative == \E j \in 0..(Len(s) - 1) : depth[j] < 0
        IN  /\ verdict.isValid <=>
                  (/\ BoundaryOk(s)
                   /\ ~negative
                   /\ depth[Len(s) - 1] = 0
                   /\ OpenQuoteAtEnd(s) = "")
            /\ ~BoundaryOk(s) => verdict = Invalid(BoundaryMismatch)
            /\ (BoundaryOk(s) /\ negative) => verdict = Invalid(UnmatchedClosingTag)

\* a Valid text with a tag inside a quote
C13_Witness ==
    /\ pc = "validated"
    /\ verdict.isValid
    /\ Includes(match.content, "\"<g>\"")

\* the opening tags of s that are never closed: the depth never returns
\* below its value after them
UnclosedTags(s) ==
    LET depth == DepthTrack(s)
    IN  {k \in OpeningTags(s) : \A j \in k..(Len(s) - 1) : depth[j] >= depth[k]}

\* the quote character that opens the quote left open at the end of s
UnterminatedQuoteAt(s) ==
    LET open == QuoteTrack(s \o " ", 0, "")
    IN  SetMax({j \in 0..(Len(s) - 1) : open[j + 1] = "" /\ open[j + 2] # ""})

Occurrences(s, pat) ==
    Cardinality({i \in 0..(Len(s) - Len(pat)) : StartsWithAt(s, pat, i)})

\* the root opening tag of a fragment, from <svg to its unquoted >
RootTag(s) == Substring(s, 0, FindOpenTagEnd(s, 4) + 1)

\* the values of the attributes called name in s, in text order
RECURSIVE AttrValuesFrom(_, _, _)
AttrValuesFrom(s, name, from) ==
    LET i == IndexOf(s, " " \o name \o "=\"", from)
        v == i + Len(name) + 3
        q == IndexOf(s, "\"", v)
    IN  IF i = -1 \/ q = -1 THEN <<>>
        ELSE <<Substring(s, v, q)>> \o AttrValuesFrom(s, name, q + 1)

AttrValues(s, name) == AttrValuesFrom(s, name, 0)

\* the image tags of s whose reference the host rejects
RejectedImages(s) == {m \in ImageMatches(s, 0) : HostUriThrows(m.href)}

\* C15: normalize is total: no error escapes it, whatever the fragment; an
\* image reference whose resolution by the host throws is left as written,
\* and the image step changes nothing when every reference is one of those.
C15_TotalAndUntouched ==
    /\ pc # "failed"
    /\ pc = "cleaned" =>
          /\ \A m \in RejectedImages(match.content) :
                 /\ Occurrences(steps.images, m.full) = Occurrences(steps.references, m.full)
                 /\ Occurrences(cleaned, m.full) = Occurrences(match.content, m.full)
          /\ RejectedImages(steps.references) = ImageMatches(steps.references, 0) =>
                 steps.images = steps.references

\* a rejected reference left as written next to a resolved one
C15_Witness ==
    /\ pc = "cleaned"
    /\ Includes(match.content, "<image xlink:href=\"a b:c\">")
    /\ Includes(match.content, "<image xlink:href=\"p.png\">")
    /\ Includes(cleaned, "<image xlink:href=\"a b:c\">")
    /\ Includes(cleaned, "<image xlink:href=\"file:///p.png\">")

\* C16: for a fragment with no viewBox whose root has both width and height,
\* normalize inserts viewBox="0 0 W H", W and H being the root's width and
\* height with everything but digits and "." removed; when the root has not
\* both, it inserts viewBox="0 0 300 200"; <svg width="10" height="20"></svg>
\* gains viewBox="0 0 10 20" and the default namespace and keeps its width
\* and height.
C16_ViewBoxFromRoot ==
    (pc = "cleaned" /\ ~Includes(match.content, "viewBox=")) =>
        LET w == AttrValues(RootTag(match.content), "width")
            h == AttrValues(RootTag(match.content), "height")
            out == RootTag(cleaned)
        IN  /\ AttrValues(out, "viewBox")
                  = IF w # <<>> /\ h # <<>>
                    THEN <<"0 0 " \o StripNonNumeric(w[1]) \o " " \o StripNonNumeric(h[1])>>
                    ELSE <<"0 0 300 200">>
            /\ match.content = "<svg width=\"10\" height=\"20\"></svg>" =>
                  /\ Includes(out, "viewBox=\"0 0 10 20\"")
                  /\ Includes(out, SvgNamespace)
                  /\ Includes(out, " width=\"10\" height=\"20\">")

\* C17: after normalize the root opening tag has one width and one height:
\* the root's own where it had one, width="300" or height="200" inserted for
\* just the missing one, whatever attributes the descendants carry.
C17_RootDimensions ==
    pc = "cleaned" =>
        LET w == AttrValues(RootTag(match.content), "width")
            h == AttrValues(RootTag(match.content), "height")
            out == RootTag(cleaned)
        IN  /\ AttrValues(out, "width") = IF w = <<>> THEN <<"300">> ELSE w
            /\ AttrValues(out, "height") = IF h = <<>> THEN <<"200">> ELSE h

\* the sequence a ends with the sequence b
SeqEndsWith(a, b) ==
    Len(b) <= Len(a) /\ SubSeq(a, Len(a) - Len(b) + 1, Len(a)) = b

\* C18: every viewBox, width and height attribute of the input is in the
\* output with the same value (normalize only adds some in front of them, in
\* the root tag), and the dimension step only inserts text right after the
\* root tag name.
C18_DimensionsKept ==
    pc = "cleaned" =>
        /\ \A name \in {"viewBox", "width", "height"} :
               SeqEndsWith(AttrValues(cleaned, name), AttrValues(match.content, name))
        /\ StartsWithAt(steps.dimensions, "<svg", 0)
        /\ EndsWith(steps.dimensions, SubstringFrom(steps.namespaces, 4))

\* C19: after normalize the root opening tag carries the default-namespace
\* declaration once; when the root had none it is inserted right after the
\* root tag name, also when a nested <svg> declares one; xmlns:xlink is
\* inserted right after the root tag name when an xlink: attribute is used
\* and the fragment declares it nowhere; the attributes the root had follow
\* the inserted ones, as they were.
C19_RootNamespaced ==
    pc = "cleaned" =>
        LET root == RootTag(match.content)
            out  == RootTag(cleaned)
            s1   == steps.comments
            ins  == (IF Includes(s1, "xlink:") /\ ~Includes(s1, "xmlns:xlink=")
                     THEN " " \o XlinkNamespace ELSE "")
                    \o (IF ~Includes(s1, "xmlns=") THEN " " \o SvgNamespace ELSE "")
        IN  /\ Occurrences(out, " xmlns=\"http://www.w3.org/2000/svg\"") = 1
            /\ steps.namespaces = "<svg" \o ins \o SubstringFrom(s1, 4)
            /\ (~Includes(root, "xmlns=") /\ Includes(s1, "xmlns=")) =>
                   StartsWithAt(cleaned, "<svg " \o SvgNamespace, 0)
            /\ (Includes(s1, "xlink:") /\ ~Includes(s1, "xmlns:xlink=")) =>
                   Occurrences(out, " " \o XlinkNamespace) = 1
            /\ EndsWith(out, SubstringFrom(root, 4))

\* only a nested <svg> declares xmlns: the root gets its own
C19_Witness ==
    /\ pc = "cleaned"
    /\ ~Includes(RootTag(match.content), "xmlns=")
    /\ Includes(match.content, "<svg " \o SvgNamespace \o "></svg>")
    /\ Includes(match.content, "xlink:href")
    /\ StartsWithAt(cleaned, "<svg " \o SvgNamespace, 0)
    /\ Includes(RootTag(cleaned), XlinkNamespace)

\* the texts of the CDATA sections of s, in order
RECURSIVE CdataFrom(_, _)
CdataFrom(s, from) ==
    LET i == IndexOf(s, "<![CDATA[", from)
        e == IndexOf(s, "]]>", i + 9)
    IN  IF i = -1 THEN <<>>
        ELSE IF e = -1 THEN <<SubstringFrom(s, i + 9)>>
        ELSE <<Substring(s, i + 9, e)>> \o CdataFrom(s, e + 3)

CdataSections(s) == CdataFrom(s, 0)

\* s without its CDATA sections
RECURSIVE OutsideCdataFrom(_, _)
OutsideCdataFrom(s, from) ==
    LET i == IndexOf(s, "<![CDATA[", from)
        e == IndexOf(s, "]]>", i + 9)
    IN  IF i = -1 THEN SubstringFrom(s, from)
        ELSE IF e = -1 THEN Substring(s, from, i)
        ELSE Substring(s, from, i) \o OutsideCdataFrom(s, e + 3)

\* C20: comment stripping removes every comment block and leaves every
\* CDATA section as it was, also one that holds <!-- and -->.
C20_CdataUntouched ==
    pc = "cleaned" =>
        /\ CdataSections(steps.comments) = CdataSections(match.content)
        /\ ~Includes(OutsideCdataFrom(steps.comments, 0), "<!--")

\* the token is made of word characters, '-' and '.' only
PlainName(token) ==
    \A i \in 1..Len(token) :
        LET c == SubSeq(token, i, i)
        IN  \/ c \in {"-", ".", "_"}
            \/ \E k \in 1..Len("abcdefghijklmnopqrstuvwxyz") :
                   \/ c = SubSeq("abcdefghijklmnopqrstuvwxyz", k, k)
                   \/ c = SubSeq("ABCDEFGHIJKLMNOPQRSTUVWXYZ", k, k)
            \/ \E k \in 1..Len("0123456789") : c = SubSeq("0123456789", k, k)

\* C21: is_file_reference(token) is true exactly when the token ends with
\* ".svg" and either contains "/" or "\" or is one or more word, '-' or '.'
\* characters followed by ".svg"; "icon.svg" and "./assets/icon.svg" are
\* accepted, "description.svg_backup" is rejected.
C21_FileReferenceExactly ==
    pc = "referenced" =>
        /\ match.found <=>
              /\ Len(text) >= Len(".svg")
              /\ SubSeq(text, Len(text) - Len(".svg") + 1, Len(text)) = ".svg"
              /\ \/ \E i \in 1..Len(text) : SubSeq(text, i, i) \in {"/", "\\"}
                 \/ /\ Len(text) > Len(".svg")
                    /\ PlainName(SubSeq(text, 1, Len(text) - Len(".svg")))
        /\ match.found => match.filePath = text
        /\ text \in {"icon.svg", "./assets/icon.svg"} => match.found
        /\ text = "description.svg_backup" => ~match.found

\* the relative path of the example has been accepted
C21_Witness ==
    /\ pc = "referenced"
    /\ match.found
    /\ text = "./assets/icon.svg"

\* the invocation has returned
HoverReturned(c) == calls[c].pc = "done"

\* validate has rejected the fragment of the invocation
HoverRejected(c) ==
    /\ calls[c].pc \in {"validated", "normalized", "done"}
    /\ calls[c].match.found
    /\ ~calls[c].verdict.isValid

\* a step that calls normalize in the invocation
NormalizeCalled(c) == ~calls[c].normalized /\ calls'[c].normalized

\* C22: in every hover invocation normalize is called only after validate
\* has returned Valid for the same fragment; when validate rejects, normalize
\* is never called for the invocation and its hover carries an error message
\* instead of a preview.
C22_NormalizeOnlyAfterValid ==
    /\ [][\A c \in Calls :
             NormalizeCalled(c) =>
                 /\ calls[c].pc = "validated"
                 /\ calls[c].match.found
                 /\ calls[c].verdict = ValidateSvgStructure(calls[c].match.content)
                 /\ calls[c].verdict = Valid
                 /\ calls'[c].match = calls[c].match]_vars
    /\ [](\A c \in Calls :
             HoverRejected(c) =>
                 /\ ~calls[c].normalized
                 /\ HoverReturned(c) => calls[c].hover.kind = "error")

\* one invocation has returned an error message without a call of normalize
\* and another a preview of the normalized fragment
C22_Witness ==
    \E c, d \in Calls :
        /\ HoverReturned(c) /\ HoverRejected(c)
        /\ calls[c].hover.kind = "error" /\ ~calls[c].normalized
        /\ HoverReturned(d) /\ calls[d].normalized
        /\ calls[d].hover = PreviewHover(CleanSvgContent(calls[d].match.content))

\* C23: the hover preview is hidden 1800 ms after the most recent hover was
\* produced: once the timer of a hover has run out with no newer hover, the
\* preview of that hover is no longer displayed.
C23_HiddenAfterDelay ==
    \A c \in Calls : timers[c].state = "ran" => shown # c

\* the timers of the host that are pending
PendingTimers == {c \in Calls : timers[c].state = "pending"}

\* C24: every produced hover cancels the pending auto-hide timer before it
\* arms a new one of 1800 ms: at most one timer is pending, hideTimer is
\* non-null exactly while a timer is pending, and the callback of a cancelled
\* timer never runs.
C24_OneTimerPending ==
    /\ [](/\ Cardinality(PendingTimers) <= 1
          /\ hideTimer # 0 <=> PendingTimers # {}
          /\ hideTimer # 0 => PendingTimers = {hideTimer}
          /\ \A c \in Calls :
                 /\ timers[c].state # "unset" <=>
                        HoverReturned(c) /\ calls[c].hover.kind \in {"preview", "error", "file"}
                 /\ timers[c].remaining <= HideDelay)
    /\ [][\A c \in Calls :
             /\ timers[c].state = "cleared" => timers'[c].state = "cleared"
             /\ timers[c].state # "pending" /\ timers'[c].state = "pending" =>
                    /\ timers'[c].remaining = HideDelay
                    /\ PendingTimers' = {c}
                    /\ hideTimer' = c]_vars

\* a second hover has cancelled the timer of the first and armed its own
C24_Witness ==
    \E c, d \in Calls :
        /\ timers[c].state = "cleared"
        /\ timers[d].state = "pending"
        /\ timers[d].remaining = HideDelay
        /\ hideTimer = d

\* the hover provideHover returns for the document, the offset and the word
\* range when the invocation runs alone
HoverAlone(s, o, w) ==
    IF ~w.found
    THEN NullHover
    ELSE LET m == FindSvgTag(s, o)
         IN  IF m.found
             THEN LET v == ValidateSvgStructure(m.content)
                  IN  IF v.isValid
                      THEN PreviewHover(CleanSvgContent(m.content))
                      ELSE ErrorHover(CreateErrorMessage(ThrownMessage(v)))
             ELSE IF ValidateSvgReference(w.word).found
                  THEN FileHover(w.word)
                  ELSE NullHover

\* C25: locate, validate, normalize and is_file_reference keep no state
\* between calls: in any interleaving of hover invocations each invocation
\* returns the hover it returns when run alone, whatever hideTimer, the only
\* state the invocations share, holds; a step of one invocation changes
\* nothing of another.
C25_InvocationsIndependent ==
    /\ [](\A c \in Calls :
             HoverReturned(c) =>
                 calls[c].hover = HoverAlone(text, calls[c].offset, calls[c].wordRange))
    /\ [][\A c, d \in Calls :
             c # d /\ calls'[c] # calls[c] => calls'[d] = calls[d]]_vars

\* the invocations are interleaved: one is between validate and normalize
\* while the other has located a different fragment
C25_Witness ==
    \E c, d \in Calls :
        /\ calls[c].pc = "validated"
        /\ calls[d].pc = "located"
        /\ calls[d].match.found
        /\ calls[c].match # calls[d].match

\* the rejection reasons of validate
RejectionReasons ==
    {BoundaryMismatch, UnmatchedClosingTag, UnbalancedDepth, UnterminatedQuote}

\* the invocation has a verdict
HoverValidated(c) ==
    /\ calls[c].pc \in {"validated", "normalized", "done"}
    /\ calls[c].match.found

\* C26: each rejection reason of validate maps one-to-one onto a diagnostic
\* text of the hover: the text of a rejected fragment is the text of its
\* reason and of no other reason, a rejected verdict carries exactly one of
\* the four reasons, and a Valid verdict carries none.
C26_ReasonsToDiagnostics ==
    \A c \in Calls :
        HoverValidated(c) =>
            /\ calls[c].verdict.isValid =>
                   /\ calls[c].verdict.error = ""
                   /\ HoverReturned(c) => calls[c].hover.kind = "preview"
            /\ ~calls[c].verdict.isValid =>
                   /\ calls[c].verdict.error \in RejectionReasons
                   /\ HoverReturned(c) =>
                          /\ calls[c].hover.kind = "error"
                          /\ \A reason \in RejectionReasons :
                                 calls[c].hover.value
                                         = CreateErrorMessage(ThrownMessage(Invalid(reason)))
                                     <=> reason = calls[c].verdict.error
                          /\ Includes(calls[c].hover.value, calls[c].verdict.error)

\* the hover of a fragment with an unterminated quote has been returned
C26_Witness ==
    \E c \in Calls :
        /\ HoverReturned(c)
        /\ calls[c].verdict = Invalid(UnterminatedQuote)
        /\ calls[c].hover.kind = "error"

\* C27: whenever validateSvgStructure rejects a fragment, the hover text of
\* createSvgTagHover is the 'The SVG element is malformed or incomplete'
\* guidance, the branch of the 'Invalid SVG structure' message.
C27_RejectionGivesGuidance ==
    \A c \in Calls :
        HoverReturned(c) /\ HoverRejected(c) =>
            /\ calls[c].hover.kind = "error"
            /\ calls[c].hover.value = ErrorPrefix \o MalformedGuidance

\* C29: provideHover returns null when there is no word range at the
\* position, even inside an <svg> element; otherwise a located fragment takes
\* precedence over a file reference, the file-reference check runs only when
\* locate returned absence, and null is returned when neither matches.
C29_HoverPrecedence ==
    \A c \in Calls :
        /\ calls[c].referenced =>
               /\ calls[c].wordRange.found
               /\ calls[c].match = Null
               /\ ~FindSvgTag(text, calls[c].offset).found
        /\ HoverReturned(c) =>
               IF ~calls[c].wordRange.found
               THEN calls[c].hover = NullHover
               ELSE IF FindSvgTag(text, calls[c].offset).found
                    THEN /\ calls[c].hover.kind \in {"preview", "error"}
                         /\ ~calls[c].referenced
                    ELSE /\ calls[c].referenced
                         /\ IF /\ EndsWith(calls[c].wordRange.word, ".svg")
                               /\ calls[c].reference.found
                            THEN calls[c].hover = FileHover(calls[c].wordRange.word)
                            ELSE calls[c].hover = NullHover

\* null has been returned inside an <svg> element for want of a word range,
\* and the fragment has taken precedence over the file reference under the
\* cursor
C29_Witness ==
    \E c, d \in Calls :
        /\ HoverReturned(c)
        /\ ~calls[c].wordRange.found
        /\ FindSvgTag(text, calls[c].offset).found
        /\ calls[c].hover = NullHover
        /\ HoverReturned(d)
        /\ calls[d].wordRange.found
        /\ ValidateSvgReference(calls[d].wordRange.word).found
        /\ calls[d].hover.kind = "preview"

\* C28: the reference-pruning loop of processReferences terminates for every
\* input and every reference kind although the text is rewritten while the
\* regex is mid-scan: each iteration moves the scan position forward, past a
\* match that is kept or past one that is deleted, which is not empty; a scan
\* position beyond the shortened text ends the loop of the kind; and the loop
\* ends with the result of processReferences.
C28_PruningTerminates ==
    /\ <>(pc = "pruned")
    /\ [][/\ pc = "exec" /\ pc' = "body" =>
                 /\ prune'.lastIndex > prune.lastIndex
                 /\ prune'.lastIndex <= Len(prune.content)
                 /\ Len(prune'.refMatch.full) > 0
          /\ pc = "body" =>
                 /\ prune'.lastIndex = prune.lastIndex
                 /\ IF prune.refMatch.refId \in prune.definedIds
                    THEN prune'.content = prune.content
                    ELSE Len(prune'.content)
                             = Len(prune.content) - Len(prune.refMatch.full)
          /\ pc = "exec" /\ prune.lastIndex > Len(prune.content) =>
                 pc' = "end"]_vars
    /\ [](pc = "pruned" => prune.content = ProcessReferences(text))

\* a deletion has left the scan position beyond the end of the shortened
\* text
C28_Witness ==
    /\ pc = "exec"
    /\ prune.lastIndex > Len(prune.content)
    /\ Len(prune.content) < Len(text)

\* C30: the refactored SvgProcessor preserves the behaviour of the monolithic
\* SvgHoverProvider: findSvgTag returns the span checkForSvgTag returns,
\* validateSvgStructure(...).isValid is the boolean of the old
\* validateSvgStructure, and cleanSvgContent returns the same string.
C30_RefactoringPreserves ==
    /\ pc # "idle" => match = CheckForSvgTag(text, offset)
    /\ pc \in {"validated", "cleaned", "failed"} =>
           verdict.isValid = MonolithValidateSvgStructure(match.content)
    /\ pc # "failed"
    /\ pc = "cleaned" => cleaned = MonolithCleanSvgContent(match.content)

\* both versions have located the fragment with a quoted closing token at an
\* offset inside it, accepted it and normalized it
C30_Witness ==
    /\ pc = "cleaned"
    /\ text = "a " \o QuotedDocument \o " z"
    /\ offset > match.start
    /\ verdict.isValid
    /\ MonolithValidateSvgStructure(match.content)
    /\ cleaned # match.content
    /\ cleaned = MonolithCleanSvgContent(match.content)

====
